---- MODULE Spec2Model ----
(***************************************************************************)
(* mdmp4rev: command dispatch (main, run, run_with_reverser) and           *)
(* VideoReverser (reverse_video, check_ffmpeg, generate_output_filename)   *)
(* of src/src/main.rs, with the std::path operations they rely on.         *)
(*                                                                         *)
(* A string is a sequence of units.  A unit is a one-character string      *)
(* ("/", ".", "a"), or a run of characters that holds neither a separator  *)
(* nor a dot and is never split ("mp4", "MP4", "-rev", a message text).    *)
(* No unit is a prefix of another, so two strings are equal exactly when   *)
(* their sequences are.  Paths use the separator "/" and have no prefix    *)
(* (drive) component.  Arguments are Rust Strings, hence valid Unicode:    *)
(* to_str() on them never fails.                                           *)
(***************************************************************************)
EXTENDS Integers, Sequences, FiniteSets, TLC

VARIABLES
    args,         \* argv handed to run / run_with_reverser
    inputExists,  \* the file system's answer to Path::exists for args[2]
    pc,           \* position of the program
    calls,        \* the runner's call log: <<program, args>> records
    probeOut,     \* what the runner returned for the availability probe
    xformOut,     \* what the runner returned for the transformation
    outputPath,   \* local output_path of reverse_video
    rv,           \* value returned by reverse_video
    runResult,    \* value returned by run_with_reverser
    stdout,       \* lines written to standard output
    stderr,       \* lines written to standard error
    exitStatus    \* process exit status

vars == <<args, inputExists, pc, calls, probeOut, xformOut, outputPath, rv,
          runResult, stdout, stderr, exitStatus>>

----------------------------------------------------------------------------
\* Bounds of the model.

MaxPathLen == 5      \* units in the input path
MaxArgs == 3         \* longest argument vector
MaxStderrLen == 2    \* units of captured standard error

----------------------------------------------------------------------------
\* Option values.

None == [some |-> FALSE, val |-> <<>>]

Some(v) == [some |-> TRUE, val |-> v]

unwrap_or_default(o) == IF o.some THEN o.val ELSE <<>>

MaxOf(S) == CHOOSE x \in S : \A y \in S : y <= x

----------------------------------------------------------------------------
\* std::path: components read from the back of a path.

is_sep_byte(c) == c = "/"

has_root(p) == Len(p) > 0 /\ is_sep_byte(p[1])

include_cur_dir(p) ==
    /\ ~has_root(p)
    /\ Len(p) > 0
    /\ p[1] = "."
    /\ (Len(p) = 1 \/ is_sep_byte(p[2]))

len_before_body(p) ==
    (IF has_root(p) THEN 1 ELSE 0) + (IF include_cur_dir(p) THEN 1 ELSE 0)

\* "" and "." are no component; ".." is the parent; anything else is Normal.
parse_single_component(comp) ==
    IF comp = <<>> \/ comp = <<".">> THEN "None"
    ELSE IF comp = <<".", ".">> THEN "ParentDir"
    ELSE "Normal"

\* The last component of body[1..n], the path after its root and leading ".":
\* what follows the last separator, and how many units it and that separator
\* take.
component_after(p, n, start, seps) ==
    IF seps = {}
    THEN [size |-> n - start, comp |-> SubSeq(p, start + 1, n)]
    ELSE [size |-> (n - MaxOf(seps)) + 1, comp |-> SubSeq(p, MaxOf(seps) + 1, n)]

with_kind(c) ==
    [size |-> c.size, comp |-> c.comp, kind |-> parse_single_component(c.comp)]

parse_next_component_back(p, n) ==
    with_kind(component_after(p, n, len_before_body(p),
                  {i \in (len_before_body(p) + 1)..n : is_sep_byte(p[i])}))

\* Components::next_back on p[1..n]: the last component, its text, the index
\* of its last unit (end) and the length of what is left before it (rest).
RECURSIVE next_back(_, _)
next_back(p, n) ==
    IF n > len_before_body(p)
    THEN LET c == parse_next_component_back(p, n)
         IN  IF c.kind # "None"
             THEN [kind |-> c.kind, comp |-> c.comp, end |-> n, rest |-> n - c.size]
             ELSE next_back(p, n - c.size)
    ELSE IF n > 0 /\ has_root(p)
         THEN [kind |-> "RootDir", comp |-> <<"/">>, end |-> n, rest |-> n - 1]
    ELSE IF n > 0 /\ include_cur_dir(p)
         THEN [kind |-> "CurDir", comp |-> <<".">>, end |-> n, rest |-> n - 1]
    ELSE [kind |-> "End", comp |-> <<>>, end |-> n, rest |-> n]

\* Components::trim_right: drop trailing separators and "." from p[1..n].
RECURSIVE trim_right(_, _)
trim_right(p, n) ==
    IF n > len_before_body(p)
    THEN LET c == parse_next_component_back(p, n)
         IN  IF c.kind # "None" THEN n ELSE trim_right(p, n - c.size)
    ELSE n

file_name(p) ==
    LET c == next_back(p, Len(p))
    IN  IF c.kind = "Normal" THEN Some(c.comp) ELSE None

parent(p) ==
    LET c == next_back(p, Len(p))
    IN  IF c.kind \in {"Normal", "CurDir", "ParentDir"}
        THEN Some(SubSeq(p, 1, trim_right(p, c.rest)))
        ELSE None

\* Split a file name at its last dot; a name that only starts with a dot, and
\* "..", have no extension.
split_at(file, dots) ==
    IF file = <<".", ".">> THEN [before |-> Some(file), after |-> None]
    ELSE IF dots = {} THEN [before |-> None, after |-> Some(file)]
    ELSE IF MaxOf(dots) = 1 THEN [before |-> Some(file), after |-> None]
    ELSE [before |-> Some(SubSeq(file, 1, MaxOf(dots) - 1)),
          after |-> Some(SubSeq(file, MaxOf(dots) + 1, Len(file)))]

rsplit_file_at_dot(file) ==
    split_at(file, {i \in 1..Len(file) : file[i] = "."})

\* before.or(after)
before_or_after(s) == IF s.before.some THEN s.before ELSE s.after

\* before.and(after)
before_and_after(s) == IF s.before.some THEN s.after ELSE None

and_then_split(f) == IF f.some THEN rsplit_file_at_dot(f.val) ELSE [before |-> None, after |-> None]

file_stem(p) == before_or_after(and_then_split(file_name(p)))

extension(p) == before_and_after(and_then_split(file_name(p)))

\* PathBuf::pop: truncate to the parent, if there is one.
pop(buf) ==
    LET q == parent(buf) IN IF q.some THEN q.val ELSE buf

\* PathBuf::push: an absolute path replaces buf; otherwise a separator is
\* added unless buf is empty or ends with one.
push(buf, path) ==
    IF has_root(path) THEN path
    ELSE IF Len(buf) > 0 /\ ~is_sep_byte(buf[Len(buf)]) THEN buf \o <<"/">> \o path
    ELSE buf \o path

set_file_name(buf, name) ==
    push(IF file_name(buf).some THEN pop(buf) ELSE buf, name)

with_file_name(p, name) == set_file_name(p, name)

\* PathBuf::set_extension: cut buf right after its file stem (stem, inside
\* the last component c), then append "." and the extension when the
\* extension is not empty.
truncate_and_push(buf, ext, stem, c) ==
    IF ~stem.some THEN buf
    ELSE IF ext = <<>> THEN SubSeq(buf, 1, (c.end - Len(c.comp)) + Len(stem.val))
    ELSE SubSeq(buf, 1, (c.end - Len(c.comp)) + Len(stem.val)) \o <<".">> \o ext

set_extension(buf, ext) ==
    truncate_and_push(buf, ext, file_stem(buf), next_back(buf, Len(buf)))

----------------------------------------------------------------------------
\* Values of the program.

\* Result<PathBuf, VideoError>: the variant and what it carries.
NoResult == [tag |-> "None", val |-> <<>>]

Ok(path) == [tag |-> "Ok", val |-> path]

FFmpegNotFound == [tag |-> "FFmpegNotFound", val |-> <<>>]

InvalidInput(msg) == [tag |-> "InvalidInput", val |-> msg]

ProcessingError(msg) == [tag |-> "ProcessingError", val |-> msg]

IoError(e) == [tag |-> "IoError", val |-> e]

\* #[error(...)] of VideoError: the text Display gives.
Display(e) ==
    IF e.tag = "FFmpegNotFound" THEN <<"FFmpeg is not installed or not accessible">>
    ELSE IF e.tag = "InvalidInput" THEN <<"Invalid input file path: ">> \o e.val
    ELSE IF e.tag = "ProcessingError" THEN <<"Failed to process video: ">> \o e.val
    ELSE <<"IO error: ">> \o e.val

\* std::io::Result<std::process::Output> as the runner returns it.
NotCalled == [r |-> "NotCalled", success |-> FALSE, stderr |-> <<>>, err |-> <<>>]

LaunchError(e) == [r |-> "Err", success |-> FALSE, stderr |-> <<>>, err |-> e]

Output(success, bytes) == [r |-> "Ok", success |-> success, stderr |-> bytes, err |-> <<>>]

\* String::from_utf8_lossy: every invalid byte becomes U+FFFD.
InvalidBytes == {"xFF"}

from_utf8_lossy_dropsInvalid(bytes) ==
    SelectSeq(bytes, LAMBDA b : b \notin InvalidBytes)

from_utf8_lossy(bytes) ==
    [i \in DOMAIN bytes |-> IF bytes[i] \in InvalidBytes THEN "U+FFFD" ELSE bytes[i]]

\* {:?} of a PathBuf: the text between double quotes, '"' and '\' escaped.
escape_debug(c) ==
    IF c = "\"" THEN "\\\"" ELSE IF c = "\\" THEN "\\\\" ELSE c

DebugFmt(path) ==
    <<"\"">> \o [i \in DOMAIN path |-> escape_debug(path[i])] \o <<"\"">>

----------------------------------------------------------------------------
\* Inputs.

PathUnits == {"a", ".", "/", "mp4", "MP4"}

Paths == UNION {[1..n -> PathUnits] : n \in 0..MaxPathLen}

ProgramName == <<"mdmp4rev">>

ExtraArgs == {<<"a">>, <<"a", ".", "mp4">>}

\* argv: empty, the program name alone, the program name and one path, or
\* the program name and two or more arguments.
ArgVectors ==
    {<<>>, <<ProgramName>>}
    \cup {<<ProgramName, p>> : p \in Paths}
    \cup UNION {{<<ProgramName>> \o s : s \in [1..n -> ExtraArgs]} : n \in 2..(MaxArgs - 1)}

IoErrors == {<<"program not found">>, <<"permission denied">>}

StderrUnits == {"Conversion failed", "xFF"}

StderrBytes == UNION {[1..n -> StderrUnits] : n \in 0..MaxStderrLen}

ProbeOutputs ==
    {LaunchError(e) : e \in IoErrors} \cup {Output(s, <<>>) : s \in BOOLEAN}

XformOutputs ==
    {LaunchError(e) : e \in IoErrors}
    \cup {Output(s, b) : s \in BOOLEAN, b \in StderrBytes}

----------------------------------------------------------------------------
\* VideoReverser.

ProbeCall == [program |-> "ffmpeg", args |-> <<"-version">>]

XformCall(input, output) ==
    [program |-> "ffmpeg",
     args |-> <<"-i", input, "-vf", "reverse", "-af", "areverse", "-y", output>>]

generate_output_filename_noSuffix(input_path) ==
    LET stem == unwrap_or_default(file_stem(input_path))
        ext == unwrap_or_default(extension(input_path))
    IN  set_extension(with_file_name(input_path, stem), ext)

generate_output_filename(input_path) ==
    LET stem == unwrap_or_default(file_stem(input_path))
        ext == unwrap_or_default(extension(input_path))
        new_name == stem \o <<"-rev">>
    IN  set_extension(with_file_name(input_path, new_name), ext)

Init ==
    /\ args \in ArgVectors
    /\ inputExists \in BOOLEAN
    /\ inputExists => (Len(args) = 2 /\ args[2] # <<>>)
    /\ pc = "run"
    /\ calls = <<>>
    /\ probeOut = NotCalled
    /\ xformOut = NotCalled
    /\ outputPath = None
    /\ rv = NoResult
    /\ runResult = [tag |-> "None", msg |-> <<>>]
    /\ stdout = <<>>
    /\ stderr = <<>>
    /\ exitStatus = -1

\* run_with_reverser up to the call of reverse_video: args[0] is read before
\* anything else when the length is not 2, which panics on an empty vector
\* (the process then ends with status 101).
Run ==
    /\ pc = "run"
    /\ IF Len(args) = 0
       THEN /\ pc' = "exited"
            /\ runResult' = [tag |-> "Panic", msg |-> <<"index out of bounds">>]
            /\ stderr' = Append(stderr, <<"thread 'main' panicked">>)
            /\ exitStatus' = 101
       ELSE IF Len(args) # 2
       THEN /\ pc' = "main"
            /\ runResult' = [tag |-> "Err",
                             msg |-> <<"Usage: ">> \o args[1] \o <<" <input_mp4_file>">>]
            /\ UNCHANGED <<stderr, exitStatus>>
       ELSE /\ pc' = "validate"
            /\ UNCHANGED <<runResult, stderr, exitStatus>>
    /\ UNCHANGED <<args, inputExists, calls, probeOut, xformOut, outputPath, rv, stdout>>

\* reverse_video, the two checks of its input.
Validate_extensionFirst ==
    /\ pc = "validate"
    /\ IF extension(args[2]) # Some(<<"mp4">>)
       THEN /\ rv' = InvalidInput(<<"Input file must be an MP4">>)
            /\ pc' = "report"
       ELSE IF ~inputExists
       THEN /\ rv' = InvalidInput(<<"Input file does not exist">>)
            /\ pc' = "report"
       ELSE /\ pc' = "check_ffmpeg"
            /\ UNCHANGED rv
    /\ UNCHANGED <<args, inputExists, calls, probeOut, xformOut, outputPath,
                   runResult, stdout, stderr, exitStatus>>

Validate_anyCase ==
    /\ pc = "validate"
    /\ IF ~inputExists
       THEN /\ rv' = InvalidInput(<<"Input file does not exist">>)
            /\ pc' = "report"
       ELSE IF extension(args[2]) \notin {Some(<<"mp4">>), Some(<<"MP4">>)}
       THEN /\ rv' = InvalidInput(<<"Input file must be an MP4">>)
            /\ pc' = "report"
       ELSE /\ pc' = "check_ffmpeg"
            /\ UNCHANGED rv
    /\ UNCHANGED <<args, inputExists, calls, probeOut, xformOut, outputPath,
                   runResult, stdout, stderr, exitStatus>>

Validate ==
    /\ pc = "validate"
    /\ IF ~inputExists
       THEN /\ rv' = InvalidInput(<<"Input file does not exist">>)
            /\ pc' = "report"
       ELSE IF extension(args[2]) # Some(<<"mp4">>)
       THEN /\ rv' = InvalidInput(<<"Input file must be an MP4">>)
            /\ pc' = "report"
       ELSE /\ pc' = "check_ffmpeg"
            /\ UNCHANGED rv
    /\ UNCHANGED <<args, inputExists, calls, probeOut, xformOut, outputPath,
                   runResult, stdout, stderr, exitStatus>>

\* check_ffmpeg and the ? on it: only a failure to launch is an error.
CheckFfmpeg_ignoresFailure ==
    /\ pc = "check_ffmpeg"
    /\ \E out \in ProbeOutputs :
        /\ calls' = Append(calls, ProbeCall)
        /\ probeOut' = out
        /\ pc' = "transform"
        /\ UNCHANGED rv
    /\ UNCHANGED <<args, inputExists, xformOut, outputPath, runResult, stdout,
                   stderr, exitStatus>>

CheckFfmpeg_checksStatus ==
    /\ pc = "check_ffmpeg"
    /\ \E out \in ProbeOutputs :
        /\ calls' = Append(calls, ProbeCall)
        /\ probeOut' = out
        /\ IF out.r = "Err" \/ ~out.success
           THEN /\ rv' = FFmpegNotFound
                /\ pc' = "report"
           ELSE /\ pc' = "transform"
                /\ UNCHANGED rv
    /\ UNCHANGED <<args, inputExists, xformOut, outputPath, runResult, stdout,
                   stderr, exitStatus>>

CheckFfmpeg ==
    /\ pc = "check_ffmpeg"
    /\ \E out \in ProbeOutputs :
        /\ calls' = Append(calls, ProbeCall)
        /\ probeOut' = out
        /\ IF out.r = "Err"
           THEN /\ rv' = FFmpegNotFound
                /\ pc' = "report"
           ELSE /\ pc' = "transform"
                /\ UNCHANGED rv
    /\ UNCHANGED <<args, inputExists, xformOut, outputPath, runResult, stdout,
                   stderr, exitStatus>>

\* reverse_video from the output name to its return.
Transform_launchFailureAsNotFound ==
    /\ pc = "transform"
    /\ LET output_path == generate_output_filename(args[2])
       IN  /\ outputPath' = Some(output_path)
           /\ \E out \in XformOutputs :
               /\ calls' = Append(calls, XformCall(args[2], output_path))
               /\ xformOut' = out
               /\ rv' = IF out.r = "Err" THEN FFmpegNotFound
                        ELSE IF ~out.success
                        THEN ProcessingError(from_utf8_lossy(out.stderr))
                        ELSE Ok(output_path)
    /\ pc' = "report"
    /\ UNCHANGED <<args, inputExists, probeOut, runResult, stdout, stderr, exitStatus>>

Transform ==
    /\ pc = "transform"
    /\ LET output_path == generate_output_filename(args[2])
       IN  /\ outputPath' = Some(output_path)
           /\ \E out \in XformOutputs :
               /\ calls' = Append(calls, XformCall(args[2], output_path))
               /\ xformOut' = out
               /\ rv' = IF out.r = "Err" THEN IoError(out.err)
                        ELSE IF ~out.success
                        THEN ProcessingError(from_utf8_lossy(out.stderr))
                        ELSE Ok(output_path)
    /\ pc' = "report"
    /\ UNCHANGED <<args, inputExists, probeOut, runResult, stdout, stderr, exitStatus>>

\* run_with_reverser, the match on what reverse_video returned.
Report ==
    /\ pc = "report"
    /\ IF rv.tag = "Ok"
       THEN /\ stdout' = Append(stdout,
                   <<"Successfully created reversed video: ">> \o DebugFmt(rv.val))
            /\ runResult' = [tag |-> "Ok", msg |-> <<>>]
       ELSE /\ runResult' = [tag |-> "Err", msg |-> Display(rv)]
            /\ UNCHANGED stdout
    /\ pc' = "main"
    /\ UNCHANGED <<args, inputExists, calls, probeOut, xformOut, outputPath, rv,
                   stderr, exitStatus>>

\* main: an error is printed to standard error and the process exits with 1.
Main ==
    /\ pc = "main"
    /\ IF runResult.tag = "Err"
       THEN /\ stderr' = Append(stderr, <<"Error: ">> \o runResult.msg)
            /\ exitStatus' = 1
       ELSE /\ exitStatus' = 0
            /\ UNCHANGED stderr
    /\ pc' = "exited"
    /\ UNCHANGED <<args, inputExists, calls, probeOut, xformOut, outputPath, rv,
                   runResult, stdout>>

Next == Run \/ Validate \/ CheckFfmpeg \/ Transform \/ Report \/ Main

Spec == Init /\ [][Next]_vars

----------------------------------------------------------------------------
\* Properties.

Mp4 == Some(<<"mp4">>)

\* reverse_video has returned.
Returned == rv # NoResult

\* C1: for every input whose file name has a stem and the extension mp4
\* (stems with dots included), generate_output_filename returns the path in
\* the same parent directory whose file name is the stem, then "-rev", then
\* "." and the extension.
C1_OutputIsStemRevExt ==
    outputPath.some =>
        LET stem == file_stem(args[2])
            ext == extension(args[2])
        IN  (stem.some /\ ext = Mp4) =>
                /\ file_name(outputPath.val)
                       = Some(stem.val \o <<"-rev">> \o <<".">> \o ext.val)
                /\ parent(outputPath.val) = parent(args[2])

\* C2: a path that does not exist, whatever its extension, makes
\* reverse_video return InvalidInput("Input file does not exist"), and the
\* runner is never invoked.
C2_MissingFileIsInvalidInput ==
    (Len(args) = 2 /\ ~inputExists) =>
        /\ calls = <<>>
        /\ pc \notin {"run", "validate"} =>
               rv = InvalidInput(<<"Input file does not exist">>)

C2_Witness ==
    /\ pc = "exited"
    /\ Len(args) = 2
    /\ ~inputExists
    /\ extension(args[2]) = Some(<<"a">>)
    /\ rv.tag = "InvalidInput"

\* C3: an existing path whose extension is not exactly "mp4" (none, another
\* one, another case) makes reverse_video return
\* InvalidInput("Input file must be an MP4"), and the runner is never invoked.
C3_WrongExtensionIsInvalidInput ==
    (Len(args) = 2 /\ inputExists /\ extension(args[2]) # Mp4) =>
        /\ calls = <<>>
        /\ pc \notin {"run", "validate"} =>
               rv = InvalidInput(<<"Input file must be an MP4">>)

C3_Witness ==
    /\ pc = "exited"
    /\ inputExists
    /\ args[2] = <<"a", ".", "MP4">>
    /\ rv.tag = "InvalidInput"

\* C4: when the probe fails to launch, reverse_video returns FFmpegNotFound
\* and the call log holds the probe call and nothing else.
C4_ProbeFailureIsFFmpegNotFound ==
    probeOut.r = "Err" =>
        /\ rv = FFmpegNotFound
        /\ calls = <<[program |-> "ffmpeg", args |-> <<"-version">>]>>
        /\ xformOut = NotCalled

C4_Witness ==
    /\ pc = "exited"
    /\ inputExists
    /\ extension(args[2]) = Mp4
    /\ probeOut.r = "Err"
    /\ rv = FFmpegNotFound

\* C5: when the probe launches, whatever its exit status, it is no error; and
\* when the transformation then exits successfully, reverse_video returns Ok
\* with the derived output path and the runner was invoked exactly twice:
\* ffmpeg -version, then ffmpeg -i <input> -vf reverse -af areverse -y <output>.
C5_SuccessIsOkAfterTwoCalls ==
    /\ probeOut.r = "Ok" => rv # FFmpegNotFound
    /\ (xformOut.r = "Ok" /\ xformOut.success) =>
           /\ rv = Ok(generate_output_filename(args[2]))
           /\ calls = << [program |-> "ffmpeg", args |-> <<"-version">>],
                         [program |-> "ffmpeg",
                          args |-> <<"-i", args[2], "-vf", "reverse", "-af",
                                     "areverse", "-y", rv.val>>] >>

C5_Witness ==
    /\ pc = "exited"
    /\ probeOut.r = "Ok"
    /\ ~probeOut.success
    /\ xformOut.r = "Ok"
    /\ xformOut.success
    /\ rv.tag = "Ok"
    /\ Len(calls) = 2

\* C6: when the transformation launches and exits with a failure status,
\* reverse_video returns ProcessingError with the captured standard error as
\* text, unit for unit (an invalid byte reads U+FFFD), and never Ok.
C6_FailureStatusIsProcessingError ==
    (xformOut.r = "Ok" /\ ~xformOut.success) =>
        /\ rv.tag = "ProcessingError"
        /\ Len(rv.val) = Len(xformOut.stderr)
        /\ \A i \in 1..Len(xformOut.stderr) :
               rv.val[i] = IF xformOut.stderr[i] = "xFF" THEN "U+FFFD"
                           ELSE xformOut.stderr[i]

C6_Witness ==
    /\ pc = "exited"
    /\ xformOut.r = "Ok"
    /\ ~xformOut.success
    /\ xformOut.stderr = <<"Conversion failed">>
    /\ rv = ProcessingError(<<"Conversion failed">>)

\* C7: an argument vector of any length other than 2 makes command dispatch
\* return the error "Usage: <program_name> <input_mp4_file>" without calling
\* reverse_video or the runner.
C7_WrongCountIsUsageError ==
    (Len(args) # 2 /\ pc = "exited") =>
        /\ runResult.tag = "Err"
        /\ Len(args) > 0
        /\ runResult.msg = <<"Usage: ">> \o args[1] \o <<" <input_mp4_file>">>
        /\ ~Returned
        /\ calls = <<>>

\* C8: when the probe launches and the transformation fails to launch,
\* reverse_video returns IoError with the underlying error; FFmpegNotFound is
\* returned only when the probe failed to launch.
C8_LaunchFailureByStep ==
    /\ (probeOut.r = "Ok" /\ xformOut.r = "Err") => rv = IoError(xformOut.err)
    /\ rv = FFmpegNotFound => probeOut.r = "Err"

C8_Witness ==
    /\ pc = "exited"
    /\ probeOut.r = "Ok"
    /\ xformOut.r = "Err"
    /\ rv.tag = "IoError"

\* C9: when reverse_video returns Ok(output_path) the program writes the one
\* line "Successfully created reversed video: <output_path>", with the text
\* of the path, and exits with status 0; on every failure it writes nothing
\* to standard output and exits with status 1.
C9_SuccessLineAndExitStatus ==
    pc = "exited" =>
        IF rv.tag = "Ok"
        THEN /\ stdout = << <<"Successfully created reversed video: ">> \o rv.val >>
             /\ exitStatus = 0
        ELSE /\ stdout = <<>>
             /\ exitStatus = 1

\* C10: the output path computed for a validated input, which is the path
\* handed to ffmpeg after "-y", is never the input path.
C10_OutputIsNotInput ==
    outputPath.some =>
        /\ outputPath.val # args[2]
        /\ calls[2].args[7] = "-y"
        /\ calls[2].args[8] = outputPath.val
        /\ calls[2].args[8] # calls[2].args[2]

C10_Witness ==
    /\ pc = "exited"
    /\ Len(args) = 2
    /\ args[2] = <<"a", ".", "a", ".", "mp4">>
    /\ outputPath = Some(<<"a", ".", "mp4">>)
    /\ rv.tag = "Ok"

====
